---- MODULE Spec2Model ----
(***************************************************************************)
(* A model of the Kavenegar REST client (src/kavenegar.py): the client's   *)
(* credential and mask, the _post funnel (transport failure, body          *)
(* decoding, envelope handling), credential rotation, and the composite    *)
(* helpers built on _post (chunked bulk send, healthcheck, balance).       *)
(*                                                                         *)
(* Text is a sequence of one-character strings, so that str.replace and    *)
(* the substring test are computed and not assumed.  JSON values are       *)
(* tagged records; a JSON object is a function from its keys.              *)
(***************************************************************************)
EXTENDS Integers, Sequences, FiniteSets, TLC

VARIABLES
    apikey,       \* self.apikey
    apikey_mask,  \* self.apikey_mask
    call,         \* the latest _post call: what the transport did, what _post did
    rot,          \* a thread inside rotate_api_key: its position and argument
    reader,       \* a thread inside the error handler of _post: its position and locals
    frame,        \* the composite helper being run: its position and locals
    sent,         \* the requests the helper has handed to the transport, in order
    done          \* how the helper ended: a return value or a raised error

vars == <<apikey, apikey_mask, call, rot, reader, frame, sent, done>>

(***************************************************************************)
(* Bounds of the model.                                                    *)
(***************************************************************************)
MaxKeyLen == 4
MaxTextLen == 6
MaxPadLen == 1

(***************************************************************************)
(* Text.                                                                   *)
(***************************************************************************)
\* The characters credentials and error texts are built from.  Neither occurs
\* in the fixed parts of the request URL.
Alphabet == {"A", "*"}

Strings(n) == UNION {[1..k -> Alphabet] : k \in 0..n}

\* pat occurs in text at position i (1-based).
OccursAt(text, pat, i) ==
    /\ i + Len(pat) - 1 <= Len(text)
    /\ \A j \in 1..Len(pat) : text[i + j - 1] = pat[j]

\* Python's `pat in text`.
Contains(text, pat) == \E i \in 1..(Len(text) + 1) : OccursAt(text, pat, i)

RECURSIVE Interleave(_, _)
\* str.replace with an empty pattern: rep before every character and at the end.
Interleave(text, rep) ==
    IF text = <<>> THEN rep
    ELSE rep \o <<Head(text)>> \o Interleave(Tail(text), rep)

RECURSIVE ReplaceFrom(_, _, _)
\* str.replace with a non-empty pattern: leftmost occurrences, not overlapping,
\* the scan resuming after each replaced occurrence.
ReplaceFrom(text, pat, rep) ==
    IF text = <<>> THEN <<>>
    ELSE IF OccursAt(text, pat, 1)
         THEN rep \o ReplaceFrom(SubSeq(text, Len(pat) + 1, Len(text)), pat, rep)
         ELSE <<Head(text)>> \o ReplaceFrom(Tail(text), pat, rep)

\* Python's text.replace(pat, rep).
Replace(text, pat, rep) ==
    IF pat = <<>> THEN Interleave(text, rep) ELSE ReplaceFrom(text, pat, rep)

(***************************************************************************)
(* The credential and its mask.                                            *)
(***************************************************************************)
Stars == <<"*", "*", "*", "*", "*", "*", "*", "*">>

\* The credentials of the model.  The empty credential is left out: it is a
\* substring of every text, so nothing can be said about redacting it.
Keys == Strings(MaxKeyLen) \ {<<>>}

\* f"{apikey[:2]}********{apikey[-2:]}" if len(apikey) >= 4 else "********"
MaskOf(key) ==
    IF Len(key) >= 4
    THEN SubSeq(key, 1, 2) \o Stars \o SubSeq(key, Len(key) - 1, Len(key))
    ELSE Stars

\* f"https://{self.host}/{self.version}/{self.apikey}/{action}/{method}.json"
_build_url(key, action, method) ==
    <<"https://", "api.kavenegar.com", "/", "v1", "/">> \o key
        \o <<"/", action, "/", method, ".json">>

(***************************************************************************)
(* JSON values, as json.loads returns them.                                *)
(***************************************************************************)
JNull == [t |-> "None"]
JInt(n) == [t |-> "int", v |-> n]
JFloat(n) == [t |-> "float", v |-> n]
JStr(s) == [t |-> "str", v |-> s]
JList(items) == [t |-> "list", v |-> items]
JDict(f) == [t |-> "dict", v |-> f]

\* dict.get(key, default)
Get(d, key, default) == IF key \in DOMAIN d.v THEN d.v[key] ELSE default

\* Python's `value == n` for an integer n: an int or a float of that value.
PyEquals(value, n) == value.t \in {"int", "float"} /\ value.v = n

\* The marker of a key an object does not hold; never a value of the program.
Absent == [t |-> "absent"]

\* The object holding exactly the keys of `fields` that are not marked Absent.
Obj(fields) ==
    JDict([k \in {x \in DOMAIN fields : fields[x] # Absent} |-> fields[k]])

(***************************************************************************)
(* What the transport hands back to _post: session.post raises a           *)
(* RequestException with some text, or returns a response whose content    *)
(* is not UTF-8, is not JSON, or is the text of a JSON value.              *)
(***************************************************************************)
NetworkFailure(text) == [net |-> "raise", text |-> text]
BadUtf8(err) == [net |-> "response", bytes |-> "not utf-8", err |-> err]
BadJson(err) == [net |-> "response", bytes |-> "not json", err |-> err]
Body(value) == [net |-> "response", bytes |-> "json", value |-> value]

Statuses == {JInt(200), JFloat(200), JInt(412), JStr("200"), JNull, Absent}
Messages == {JStr(""), JStr("bad receptor"), Absent}
Metas == {Obj([status |-> s, message |-> m]) : s \in Statuses, m \in Messages}
EntriesValues ==
    {JNull, JList(<<>>), JList(<<Obj([a |-> JInt(1)])>>), Absent}
\* The envelopes: objects whose `return`, when they hold one, is an object.
Envelopes ==
    {Obj([return |-> r, entries |-> e]) : r \in Metas \cup {Absent}, e \in EntriesValues}
\* One of them, the API refusing a request: status 412, "bad receptor".
BadReceptor ==
    Obj([return |-> Obj([status |-> JInt(412), message |-> JStr("bad receptor")]),
         entries |-> JNull])
\* Valid JSON of another shape: no object at the top, or a `return` that is none.
NonObjects == {JNull, JInt(5), JStr("ok"), JList(<<>>)}
OddShapes ==
    NonObjects \cup {Obj([return |-> r, entries |-> JList(<<>>)]) : r \in NonObjects}

\* The texts a network error can carry for a request to `url`: any short text,
\* and texts that embed the request URL.
NetworkTexts(url) ==
    Strings(MaxTextLen)
        \cup {pre \o url \o post : pre \in Strings(MaxPadLen), post \in Strings(MaxPadLen)}

Transports(url) ==
    {NetworkFailure(text) : text \in NetworkTexts(url)}
        \cup {BadUtf8(err) : err \in Strings(MaxTextLen)}
        \cup {BadJson(err) : err \in Strings(MaxTextLen)}
        \cup {Body(value) : value \in Envelopes \cup OddShapes}

(***************************************************************************)
(* Outcomes: a returned value or a raised exception with its attributes.   *)
(***************************************************************************)
Return(value) == [kind |-> "return", value |-> value]

\* class HTTPException(Exception): the message is its only argument.
HTTPException(msg) == [kind |-> "raise", exc |-> "HTTPException", msg |-> msg]

\* APIException with the slip `self.message = status`.
APIException_message_lost(status, message) ==
    [kind |-> "raise", exc |-> "APIException", status |-> status, message |-> status]

\* class APIException(Exception): __init__ stores status and message.
APIException(status, message) ==
    [kind |-> "raise", exc |-> "APIException", status |-> status, message |-> message]

\* requests.exceptions.RequestException, raised by session.post.
RequestException(text) ==
    [kind |-> "raise", exc |-> "RequestException", msg |-> text]

\* `.get` looked up on a value that is no dict.
AttributeError(type) == [kind |-> "raise", exc |-> "AttributeError", of |-> type]

Raised(o, exc) == o.kind = "raise" /\ o.exc = exc

(***************************************************************************)
(* _post                                                                   *)
(***************************************************************************)
\* json.loads(content.decode("utf-8")): the value, or the error raised.
loads(content) ==
    IF content.bytes = "json"
    THEN [ok |-> TRUE, value |-> content.value]
    ELSE [ok |-> FALSE, err |-> content.err]

\* envelope with the slip `meta.get("message")`: no default for an absent message.
envelope_no_default(payload) ==
    IF payload.t # "dict" THEN AttributeError(payload.t)
    ELSE LET meta == Get(payload, "return", JDict(<<>>)) IN
         IF meta.t # "dict" THEN AttributeError(meta.t)
         ELSE LET status == Get(meta, "status", JNull)
                  message == Get(meta, "message", JNull)
              IN  IF PyEquals(status, 200)
                  THEN Return(Get(payload, "entries", JNull))
                  ELSE APIException(status, message)

\* Lines 127-132: the envelope's status decides between entries and APIException.
envelope(payload) ==
    IF payload.t # "dict" THEN AttributeError(payload.t)
    ELSE LET meta == Get(payload, "return", JDict(<<>>)) IN
         IF meta.t # "dict" THEN AttributeError(meta.t)
         ELSE LET status == Get(meta, "status", JNull)
                  message == Get(meta, "message", JStr(""))
              IN  IF PyEquals(status, 200)
                  THEN Return(Get(payload, "entries", JNull))
                  ELSE APIException(status, message)

\* Lines 113-132: the body of the try statement.
try_body(t) ==
    IF t.net = "raise" THEN RequestException(t.text)
    ELSE LET parsed == loads(t) IN
         IF ~parsed.ok THEN HTTPException(parsed.err)
         ELSE envelope(parsed.value)

\* except_handler with the slip `except Exception`: the HTTPException raised
\* by the decoding step is caught too and its text rewritten.
except_handler_broad(o, key, mask) ==
    IF o.kind = "raise" /\ o.exc \in {"RequestException", "HTTPException"}
    THEN HTTPException(Replace(o.msg, key, mask))
    ELSE o

\* Lines 133-136: `except requests.exceptions.RequestException`; every other
\* outcome of the try body passes through.
except_handler(o, key, mask) ==
    IF Raised(o, "RequestException")
    THEN HTTPException(Replace(o.msg, key, mask))
    ELSE o

_post(key, mask, t) == except_handler(try_body(t), key, mask)

(***************************************************************************)
(* The client used from one thread: _post and rotate_api_key.              *)
(***************************************************************************)
\* The (action, method) pairs of the endpoint wrappers the model calls.
Endpoints == {<<"sms", "send">>, <<"account", "info">>}

NoCall == [pc |-> "idle"]
NoThread == [pc |-> "idle"]
NoFrame == [op |-> "idle"]
NotDone == [kind |-> "running"]

\* __init__ (lines 78-79): the credential and the mask computed from it.
InitClient ==
    /\ apikey \in Keys
    /\ apikey_mask = MaskOf(apikey)

InitPost ==
    /\ InitClient
    /\ call = NoCall
    /\ rot = NoThread
    /\ reader = NoThread
    /\ frame = NoFrame
    /\ sent = <<>>
    /\ done = NotDone

\* _post, lines 110-119: the URL is built and the request handed to the transport.
PostSend ==
    /\ call.pc = "idle"
    /\ \E e \in Endpoints :
          call' = [pc |-> "sent", url |-> _build_url(apikey, e[1], e[2])]
    /\ UNCHANGED <<apikey, apikey_mask, rot, reader, frame, sent, done>>

\* _post, lines 113-136: the transport answers and _post returns or raises.
PostFinish ==
    /\ call.pc = "sent"
    /\ \E t \in Transports(call.url) :
          call' = [pc |-> "finished", url |-> call.url, transport |-> t,
                   outcome |-> _post(apikey, apikey_mask, t)]
    /\ UNCHANGED <<apikey, apikey_mask, rot, reader, frame, sent, done>>

\* The caller has taken the result or the error of the call.
PostTaken ==
    /\ call.pc = "finished"
    /\ call' = NoCall
    /\ UNCHANGED <<apikey, apikey_mask, rot, reader, frame, sent, done>>

\* rotate_api_key (lines 148-150), called between two calls of the one thread.
RotateApiKey ==
    /\ call.pc = "idle"
    /\ \E new_key \in Keys \ {apikey} :
          /\ apikey' = new_key
          /\ apikey_mask' = MaskOf(new_key)
    /\ UNCHANGED <<call, rot, reader, frame, sent, done>>

NextPost == PostSend \/ PostFinish \/ PostTaken \/ RotateApiKey

SpecPost == InitPost /\ [][NextPost]_vars

(***************************************************************************)
(* Properties of _post.                                                    *)
(***************************************************************************)
Finished == call.pc = "finished"
NetworkFailed == Finished /\ call.transport.net = "raise"
Undecodable == Finished /\ call.transport.net = "response" /\ call.transport.bytes # "json"
Decoded == Finished /\ call.transport.net = "response" /\ call.transport.bytes = "json"

\* The decoded body is an envelope: an object whose `return`, if any, is an object.
IsEnvelope(payload) ==
    /\ payload.t = "dict"
    /\ "return" \in DOMAIN payload.v => payload.v["return"].t = "dict"

\* What an envelope says: its status (None when absent), its message ("" when
\* absent) and its entries (None when absent), read off the object itself.
StatusOf(payload) ==
    IF "return" \in DOMAIN payload.v /\ "status" \in DOMAIN payload.v["return"].v
    THEN payload.v["return"].v["status"] ELSE JNull
MessageOf(payload) ==
    IF "return" \in DOMAIN payload.v /\ "message" \in DOMAIN payload.v["return"].v
    THEN payload.v["return"].v["message"] ELSE JStr("")
EntriesOf(payload) ==
    IF "entries" \in DOMAIN payload.v THEN payload.v["entries"] ELSE JNull
Is200(status) == status \in {JInt(200), JFloat(200)}

\* The attributes an exception object carries besides its class.
Attributes(o) == DOMAIN o \ {"kind", "exc"}

\* C1: the message of the HTTPException raised for a network failure does not
\* contain the raw credential as a substring, whatever the credential and the
\* text of the network error.
C1_NoRawCredential ==
    NetworkFailed =>
        /\ Raised(call.outcome, "HTTPException")
        /\ ~Contains(call.outcome.msg, apikey)

\* C3: for a body that decodes to an envelope, _post returns the envelope's
\* entries (None when absent) if and only if return.status equals 200, and
\* otherwise raises APIException with the envelope's status (None when absent)
\* and return.message ("" when absent).
C3_StatusDecides ==
    (Decoded /\ IsEnvelope(call.transport.value)) =>
        LET payload == call.transport.value IN
        IF Is200(StatusOf(payload))
        THEN call.outcome = Return(EntriesOf(payload))
        ELSE /\ Raised(call.outcome, "APIException")
             /\ call.outcome.status = StatusOf(payload)
             /\ call.outcome.message = MessageOf(payload)

C3_Witness ==
    /\ Decoded
    /\ call.transport.value = BadReceptor
    /\ call.outcome = APIException(JInt(412), JStr("bad receptor"))

\* C4, as claimed: every APIException raised for a non-success status carries
\* the status, the message and the full decoded envelope.
C4_CarriesEnvelope ==
    (Decoded /\ Raised(call.outcome, "APIException")) =>
        /\ call.outcome.status = StatusOf(call.transport.value)
        /\ call.outcome.message = MessageOf(call.transport.value)
        /\ \E a \in Attributes(call.outcome) : call.outcome[a] = call.transport.value

\* C4, as amended: every APIException raised for a non-success status carries
\* exactly two things, the envelope's status and its message; the envelope
\* itself is not among its attributes.
C4_CarriesStatusAndMessage ==
    (Decoded /\ Raised(call.outcome, "APIException")) =>
        /\ Attributes(call.outcome) = {"status", "message"}
        /\ call.outcome.status = StatusOf(call.transport.value)
        /\ call.outcome.message = MessageOf(call.transport.value)
        /\ \A a \in Attributes(call.outcome) : call.outcome[a] # call.transport.value

C4_Witness ==
    /\ Decoded
    /\ Raised(call.outcome, "APIException")
    /\ call.outcome.status = JStr("200")
    /\ call.outcome.message = JStr("")
    /\ "entries" \in DOMAIN call.transport.value.v

\* C9: for a body that is not UTF-8 or not JSON, _post raises HTTPException
\* carrying the parse error's text as it is (the handler of network errors
\* neither catches nor rewrites it), and never APIException.
C9_ParseErrorIsTransportError ==
    Undecodable => call.outcome = HTTPException(call.transport.err)

\* A parse error whose text holds the credential, raised with that text untouched.
C9_Witness ==
    /\ Undecodable
    /\ call.transport.bytes = "not json"
    /\ Contains(call.transport.err, apikey)
    /\ Raised(call.outcome, "HTTPException")
    /\ call.outcome.msg = call.transport.err

\* C10: a call whose body is valid JSON of any shape ends by returning the
\* entries, raising HTTPException or raising APIException, and in no other way.
C10_ThreeOutcomes ==
    Decoded =>
        \/ call.outcome.kind = "return"
        \/ Raised(call.outcome, "HTTPException")
        \/ Raised(call.outcome, "APIException")

(***************************************************************************)
(* The client shared by threads: one thread inside rotate_api_key, one     *)
(* inside the error handler of _post.  Each attribute store and each       *)
(* attribute load is a step of its own, as the interpreter runs them; the  *)
(* code takes no lock.                                                     *)
(***************************************************************************)
InitThreads ==
    /\ InitClient
    /\ call = NoCall
    /\ rot = NoThread
    /\ reader = NoThread
    /\ frame = NoFrame
    /\ sent = <<>>
    /\ done = NotDone

\* rotate_api_key, line 149: self.apikey = new_key
RotateStoreKey ==
    /\ rot.pc = "idle"
    /\ \E new_key \in Keys \ {apikey} :
          /\ apikey' = new_key
          /\ rot' = [pc |-> "150", new_key |-> new_key]
    /\ UNCHANGED <<apikey_mask, call, reader, frame, sent, done>>

\* rotate_api_key, line 150: self.apikey_mask = ...; the method returns.
RotateStoreMask ==
    /\ rot.pc = "150"
    /\ apikey_mask' = MaskOf(rot.new_key)
    /\ rot' = NoThread
    /\ UNCHANGED <<apikey, call, reader, frame, sent, done>>

\* _post, line 133: session.post has raised and the handler is entered.
HandlerEnter ==
    /\ reader.pc = "idle"
    /\ reader' = [pc |-> "135 apikey"]
    /\ UNCHANGED <<apikey, apikey_mask, call, rot, frame, sent, done>>

\* _post, line 135: self.apikey is loaded.
HandlerLoadKey ==
    /\ reader.pc = "135 apikey"
    /\ reader' = [pc |-> "135 apikey_mask", key |-> apikey]
    /\ UNCHANGED <<apikey, apikey_mask, call, rot, frame, sent, done>>

\* _post, line 135: self.apikey_mask is loaded; the pair is what the error
\* message is built from.
HandlerLoadMask ==
    /\ reader.pc = "135 apikey_mask"
    /\ reader' = [pc |-> "136", key |-> reader.key, mask |-> apikey_mask]
    /\ UNCHANGED <<apikey, apikey_mask, call, rot, frame, sent, done>>

\* _post, line 136: the HTTPException is raised and the call is over.
HandlerRaise ==
    /\ reader.pc = "136"
    /\ reader' = NoThread
    /\ UNCHANGED <<apikey, apikey_mask, call, rot, frame, sent, done>>

NextThreads ==
    \/ RotateStoreKey
    \/ RotateStoreMask
    \/ HandlerEnter
    \/ HandlerLoadKey
    \/ HandlerLoadMask
    \/ HandlerRaise

SpecThreads == InitThreads /\ [][NextThreads]_vars

\* C2: rotation replaces credential and mask atomically: in every interleaving
\* of a rotation with a call, the credential and the mask an error construction
\* observes belong together (the mask is the one computed from that credential).
C2_PairObservedTogether ==
    reader.pc = "136" => reader.mask = MaskOf(reader.key)

(***************************************************************************)
(* The composite helpers.  Each runs in one thread and reaches the         *)
(* transport only through the endpoint wrappers, that is through _post.    *)
(***************************************************************************)
MaxReceptors == 5
MaxChunk == 3

Min(a, b) == IF a <= b THEN a ELSE b
Max(a, b) == IF a >= b THEN a ELSE b

\* json.dumps(value): a str, the JSON text of value.
dumps(value) == [t |-> "str", json |-> value]

\* _jsonify_params: containers become their JSON text, scalars pass through;
\* the keys stay as they are.
_jsonify_params(params) ==
    [key \in DOMAIN params |->
        IF params[key].t \in {"dict", "list", "tuple"}
        THEN dumps(params[key]) ELSE params[key]]

\* The request _post hands to session.post (lines 110-119).
Request(key, action, method, params) ==
    [url |-> _build_url(key, action, method), data |-> _jsonify_params(params)]

\* seq[lo:hi] for 0 <= lo and 0 <= hi, the bounds clamped to the sequence.
Slice(seq, lo, hi) == SubSeq(seq, lo + 1, Min(hi, Len(seq)))

RECURSIVE chunk_from(_, _, _)
\* [list(seq[i : i + size]) for i in range(i, len(seq), size)]
chunk_from(seq, size, i) ==
    IF i >= Len(seq) THEN <<>>
    ELSE <<Slice(seq, i, i + size)>> \o chunk_from(seq, size, i + size)

\* _chunk with the slip seq[i : i + size - 1]: a full group of more than one
\* receptor stops one short.
_chunk_short(seq, size) ==
    [k \in 1..Len(chunk_from(seq, size, 0)) |->
        LET g == chunk_from(seq, size, 0)[k] IN
        IF Len(g) = size /\ size > 1 THEN SubSeq(g, 1, size - 1) ELSE g]

\* _chunk (lines 299-301)
_chunk(seq, size) == chunk_from(seq, size, 0)

\* send_bulk_sms (lines 310-312): the parameters of one send.
bulk_params(receptors, message, sender) ==
    IF sender.t = "None" \/ sender.v = ""
    THEN [receptor |-> JList(receptors), message |-> message]
    ELSE [receptor |-> JList(receptors), message |-> message, sender |-> sender]

\* What the server may answer on an endpoint, beside failing.
SmsRecord == Obj([messageid |-> JInt(1), status |-> JInt(5)])
Credit(n) == Obj([remaincredit |-> JInt(n)])
ServerEntries(action, method) ==
    IF <<action, method>> = <<"account", "info">>
    THEN {JNull, JList(<<>>), JList(<<Credit(1500)>>), JList(<<Credit(1500), Credit(7)>>),
          JList(<<Obj([type |-> JStr("master")])>>), JList(<<JInt(7)>>),
          Credit(1500), JStr("ok")}
    ELSE {JNull, JList(<<SmsRecord>>)}

Success(entries) ==
    Body(Obj([return |-> Obj([status |-> JInt(200), message |-> JStr("")]),
              entries |-> entries]))

\* The transport's answers to a helper's request: success, the API's refusal,
\* a network failure whose text holds the URL, a body that is no JSON, and a
\* JSON body that is no envelope.
HelperTransports(action, method, url) ==
    {Success(e) : e \in ServerEntries(action, method)}
        \cup {Body(BadReceptor), NetworkFailure(url), BadJson(<<"A">>), Body(JList(<<>>))}

InitHelpers ==
    /\ apikey \in {<<"A">>, <<"A", "*", "*", "A">>}
    /\ apikey_mask = MaskOf(apikey)
    /\ call = NoCall
    /\ rot = NoThread
    /\ reader = NoThread
    /\ frame = NoFrame
    /\ sent = <<>>
    /\ done = NotDone

Running(op) == frame.op = op /\ done = NotDone

\* The helper's caller has its result or its error; the client is idle again.
HelperExit ==
    /\ frame.op # "idle"
    /\ done # NotDone
    /\ frame' = NoFrame
    /\ sent' = <<>>
    /\ done' = NotDone
    /\ UNCHANGED <<apikey, apikey_mask, call, rot, reader>>

(***************************************************************************)
(* send_bulk_sms_chunked (lines 315-327)                                   *)
(***************************************************************************)
\* Line 325: the groups are computed once, before the first send.
ChunkedStart ==
    /\ frame.op = "idle"
    /\ \E n \in 0..MaxReceptors, chunk_size \in -1..MaxChunk,
          sender \in {JNull, JStr("3000")} :
          frame' = [op |-> "send_bulk_sms_chunked",
                    receptors |-> [i \in 1..n |-> i],
                    chunk_size |-> chunk_size,
                    sender |-> sender,
                    groups |-> _chunk([i \in 1..n |-> i], Max(1, chunk_size)),
                    next |-> 1,
                    results |-> <<>>,
                    got |-> <<>>]
    /\ sent' = <<>>
    /\ done' = NotDone
    /\ UNCHANGED <<apikey, apikey_mask, call, rot, reader>>

\* The loop body with the slip of a `try/except: results.append(None)` around
\* the send: a failed chunk is skipped and the loop goes on.
loop_body_swallow(fr, o) ==
    [frame |-> [fr EXCEPT !.results = Append(@, IF o.kind = "return" THEN o.value ELSE JNull),
                          !.next = @ + 1,
                          !.got = Append(@, o)],
     done |-> NotDone]

\* Line 326, once the send of group fr.next has ended as o: a result is
\* appended and the loop goes on; an exception leaves the method at once.
\* `got` keeps how every send ended.
loop_body(fr, o) ==
    IF o.kind = "return"
    THEN [frame |-> [fr EXCEPT !.results = Append(@, o.value),
                               !.next = @ + 1,
                               !.got = Append(@, o)],
          done |-> NotDone]
    ELSE [frame |-> [fr EXCEPT !.got = Append(@, o)], done |-> o]

\* Lines 325-326: one iteration; send_bulk_sms -> sms_send -> _post.
ChunkedSend ==
    /\ Running("send_bulk_sms_chunked")
    /\ frame.next <= Len(frame.groups)
    /\ LET params == bulk_params(frame.groups[frame.next], JStr("hi"), frame.sender)
           req == Request(apikey, "sms", "send", params)
       IN  /\ sent' = Append(sent, req)
           /\ \E t \in HelperTransports("sms", "send", req.url) :
                 LET after == loop_body(frame, _post(apikey, apikey_mask, t)) IN
                 /\ frame' = after.frame
                 /\ done' = after.done
    /\ UNCHANGED <<apikey, apikey_mask, call, rot, reader>>

\* Line 327: every group has been sent; the results are returned.
ChunkedReturn ==
    /\ Running("send_bulk_sms_chunked")
    /\ frame.next > Len(frame.groups)
    /\ done' = Return(frame.results)
    /\ UNCHANGED <<apikey, apikey_mask, call, rot, reader, frame, sent>>

(***************************************************************************)
(* healthcheck (lines 341-352)                                             *)
(***************************************************************************)
\* `except Exception` with the slip of naming the client's two classes only.
caught_narrow(o) == o.kind = "raise" /\ o.exc \in {"HTTPException", "APIException"}

\* `except Exception` (lines 345 and 350): whether the clause catches o.  Every
\* exception class of the model derives from Exception.
caught(o) ==
    o.kind = "raise"
        /\ o.exc \in {"HTTPException", "APIException", "AttributeError", "RequestException"}

\* One probe, `try: _ = call(); ok = True / except Exception: ok = False`:
\* the flag, or the exception that leaves healthcheck.
probe(o) ==
    IF o.kind = "return" THEN [ok |-> TRUE, escapes |-> FALSE]
    ELSE IF caught(o) THEN [ok |-> FALSE, escapes |-> FALSE]
    ELSE [ok |-> FALSE, escapes |-> TRUE]

HealthStart ==
    /\ frame.op = "idle"
    /\ frame' = [op |-> "healthcheck", pc |-> "343", got |-> <<>>]
    /\ sent' = <<>>
    /\ done' = NotDone
    /\ UNCHANGED <<apikey, apikey_mask, call, rot, reader>>

\* Lines 342-346: the account probe, account_info().
HealthAccount ==
    /\ Running("healthcheck")
    /\ frame.pc = "343"
    /\ LET req == Request(apikey, "account", "info", <<>>) IN
       /\ sent' = Append(sent, req)
       /\ \E t \in HelperTransports("account", "info", req.url) :
             LET o == _post(apikey, apikey_mask, t) IN
             IF probe(o).escapes
             THEN /\ frame' = [frame EXCEPT !.got = Append(@, o)]
                  /\ done' = o
             ELSE /\ frame' = [op |-> "healthcheck", pc |-> "348",
                               ok_account |-> probe(o).ok, got |-> Append(frame.got, o)]
                  /\ done' = NotDone
    /\ UNCHANGED <<apikey, apikey_mask, call, rot, reader>>

\* Lines 347-352: the outbox probe, sms_latestoutbox(), and the return.
HealthSms ==
    /\ Running("healthcheck")
    /\ frame.pc = "348"
    /\ LET req == Request(apikey, "sms", "latestoutbox", <<>>) IN
       /\ sent' = Append(sent, req)
       /\ \E t \in HelperTransports("sms", "latestoutbox", req.url) :
             LET o == _post(apikey, apikey_mask, t) IN
             /\ frame' = [frame EXCEPT !.got = Append(@, o)]
             /\ done' = IF probe(o).escapes THEN o
                        ELSE Return([account |-> frame.ok_account, sms |-> probe(o).ok])
    /\ UNCHANGED <<apikey, apikey_mask, call, rot, reader>>

(***************************************************************************)
(* account_balance (lines 272-276)                                         *)
(***************************************************************************)
\* account_balance with the slip of a `try/except: return None` around the call.
account_balance_swallow(info) ==
    IF info.kind = "raise" THEN Return(JNull)
    ELSE IF info.value.t = "list" /\ info.value.v # <<>>
         THEN IF info.value.v[1].t = "dict"
              THEN Return(Get(info.value.v[1], "remaincredit", JNull))
              ELSE AttributeError(info.value.v[1].t)
         ELSE Return(JNull)

\* Lines 273-276, given how account_info() ended.
account_balance(info) ==
    IF info.kind = "raise" THEN info
    ELSE IF info.value.t = "list" /\ info.value.v # <<>>
         THEN IF info.value.v[1].t = "dict"
              THEN Return(Get(info.value.v[1], "remaincredit", JNull))
              ELSE AttributeError(info.value.v[1].t)
         ELSE Return(JNull)

BalanceStart ==
    /\ frame.op = "idle"
    /\ frame' = [op |-> "account_balance", got |-> <<>>]
    /\ sent' = <<>>
    /\ done' = NotDone
    /\ UNCHANGED <<apikey, apikey_mask, call, rot, reader>>

\* Lines 273-276: account_info() is called and its result looked at.
BalanceCall ==
    /\ Running("account_balance")
    /\ LET req == Request(apikey, "account", "info", <<>>) IN
       /\ sent' = Append(sent, req)
       /\ \E t \in HelperTransports("account", "info", req.url) :
             LET info == _post(apikey, apikey_mask, t) IN
             /\ frame' = [frame EXCEPT !.got = Append(@, info)]
             /\ done' = account_balance(info)
    /\ UNCHANGED <<apikey, apikey_mask, call, rot, reader>>

NextHelpers ==
    \/ ChunkedStart
    \/ ChunkedSend
    \/ ChunkedReturn
    \/ HealthStart
    \/ HealthAccount
    \/ HealthSms
    \/ BalanceStart
    \/ BalanceCall
    \/ HelperExit

SpecHelpers == InitHelpers /\ [][NextHelpers]_vars

(***************************************************************************)
(* Properties of the helpers.                                              *)
(***************************************************************************)
InChunked == frame.op = "send_bulk_sms_chunked"

\* The chunk size in force, the number of groups it gives, and the receptors
\* of the k-th group, by position.
InForce(chunk_size) == IF chunk_size >= 1 THEN chunk_size ELSE 1
Ceil(n, s) == (n + s - 1) \div s
GroupAt(receptors, s, k) ==
    [i \in 1..(Min(k * s, Len(receptors)) - (k - 1) * s) |-> receptors[(k - 1) * s + i]]

\* The receptors a request carries: its `receptor` parameter, a JSON text.
Carried(req) == req.data.receptor.json.v

RECURSIVE Concat(_)
Concat(reqs) == IF reqs = <<>> THEN <<>> ELSE Carried(Head(reqs)) \o Concat(Tail(reqs))

\* C5: with s = max(1, chunk size), the sends go out one after another, the
\* k-th carrying the receptors at positions (k-1)*s+1 .. k*s (fewer in the last
\* group); when the method returns it has issued exactly ceil(n/s) sends, the
\* groups put together are the input list, and the returned list holds the
\* k-th send's result at position k.
C5_ChunkedSends ==
    InChunked =>
        LET s == InForce(frame.chunk_size)
            k == Ceil(Len(frame.receptors), s)
        IN  /\ Len(sent) <= k
            /\ \A j \in 1..Len(sent) :
                  /\ sent[j].url = _build_url(apikey, "sms", "send")
                  /\ sent[j].data.receptor = dumps(JList(GroupAt(frame.receptors, s, j)))
                  /\ Len(Carried(sent[j])) \in 1..s
            /\ done.kind = "return" =>
                  /\ Len(sent) = k
                  /\ Concat(sent) = frame.receptors
                  /\ Len(done.value) = k
                  /\ \A j \in 1..k : done.value[j] = frame.got[j].value

\* Five receptors in chunks of two: three sends of 2, 2 and 1, three results.
C5_Witness ==
    /\ InChunked
    /\ frame.receptors = <<1, 2, 3, 4, 5>>
    /\ frame.chunk_size = 2
    /\ Len(sent) = 3
    /\ <<Carried(sent[1]), Carried(sent[2]), Carried(sent[3])>> = <<<<1, 2>>, <<3, 4>>, <<5>>>>
    /\ done = Return(<<JNull, JList(<<SmsRecord>>), JNull>>)

\* C6: when the send of chunk k fails, that error is how the method ends: no
\* send follows it, no send is repeated, and no result list is returned.
C6_FailurePropagates ==
    InChunked =>
        /\ \A j \in 1..Len(frame.got) :
              frame.got[j].kind = "raise" =>
                  /\ j = Len(frame.got)
                  /\ Len(sent) = j
                  /\ done = frame.got[j]
        /\ \A a, b \in 1..Len(sent) : a # b => sent[a] # sent[b]

\* The second of three chunks is refused by the API.
C6_Witness ==
    /\ InChunked
    /\ Len(frame.groups) = 3
    /\ Len(sent) = 2
    /\ Len(frame.results) = 1
    /\ Raised(frame.got[2], "APIException")
    /\ done = frame.got[2]

InHealth == frame.op = "healthcheck"

\* C7: healthcheck never raises; whatever the account probe did, the outbox
\* probe is issued after it; the method returns {account, sms}, each flag true
\* exactly when its own probe returned.
C7_HealthNeverRaises ==
    InHealth =>
        /\ done.kind # "raise"
        /\ Len(frame.got) = 1 => (done = NotDone /\ frame.pc = "348")
        /\ done.kind = "return" =>
              /\ Len(sent) = 2
              /\ sent[1].url = _build_url(apikey, "account", "info")
              /\ sent[2].url = _build_url(apikey, "sms", "latestoutbox")
              /\ done.value = [account |-> frame.got[1].kind = "return",
                               sms |-> frame.got[2].kind = "return"]

\* The account probe fails on the network, the outbox probe succeeds.
C7_Witness ==
    /\ InHealth
    /\ Len(frame.got) = 2
    /\ Raised(frame.got[1], "HTTPException")
    /\ frame.got[2].kind = "return"
    /\ done = Return([account |-> FALSE, sms |-> TRUE])

InBalance == frame.op = "account_balance" /\ done # NotDone

====
